---- MODULE Spec2Model ----
(***************************************************************************)
(* Model of khoma.py: a Flask service that registers and recognises faces  *)
(* over a pickle file holding {'encodings': [...], 'metadata': [...]}.     *)
(*                                                                         *)
(* The persisted file is the only shared state.  A handler runs in a       *)
(* worker thread; every step of a handler that does not touch the file is  *)
(* local to the worker, so a handler is cut at its file accesses:          *)
(*   register : validate, load_data | int(age), append, save_data, reply   *)
(*   delete   : load_data, bounds check | del, del, save_data, reply       *)
(*   clear, list, recognize, health : at most one file access, one step    *)
(*                                                                         *)
(* A face encoding (a 128-float vector, compared by Euclidean distance) is *)
(* modelled as a point on a line, in units of 0.1: the distance between    *)
(* two encodings is the absolute difference, the tolerance 0.6 is 6 and    *)
(* the confidence 1 - d is Unit - d.                                       *)
(* An image is modelled by what the decoder and the detector make of it:   *)
(* absent, undecodable, or decodable with the list of encodings of the     *)
(* faces detected in it (the detector is deterministic).                   *)
(***************************************************************************)
EXTENDS Integers, Sequences, FiniteSets

VARIABLES file, pc, req, data, results, resp

vars == <<file, pc, req, data, results, resp>>

\* ------------------------------------------------------------ bounds

\* Registrations start only while the loaded store is shorter than this.
MaxStore == 2

Workers == {"w1", "w2"}

\* The worker that serves the requests of SeqSpec, one at a time.
SeqWorker == "w1"

\* ------------------------------------------------------------ constants

\* tolerance=0.6, in units of 0.1
Tolerance == 6

\* The 1 of "1 - face_distances[best_match_index]", in units of 0.1
Unit == 10

Encodings == {0, 6, 7, 12}

Timestamps == {"2024-01-01T00:00:00"}

\* ------------------------------------------------------------ values

EmptyData == [encodings |-> <<>>, metadata |-> <<>>]

NoFile == [exists |-> FALSE, data |-> EmptyData]

AgeNone == [t |-> "none", n |-> 0, s |-> <<>>]

AgeInt(n) == [t |-> "int", n |-> n, s |-> <<>>]

AgeStr(s) == [t |-> "str", n |-> 0, s |-> s]

NoImage == [kind |-> "absent", faces |-> <<>>]

BadImage == [kind |-> "undecodable", faces |-> <<>>]

Photo(faces) == [kind |-> "ok", faces |-> faces]

NoReq ==
  [op |-> "none", transport |-> "json", image |-> NoImage, name |-> "",
   age |-> AgeNone, gender |-> "", person_id |-> 0]

NoResp == [status |-> 0, kind |-> "none"]

ErrorResp(status, msg) == [status |-> status, kind |-> "error", error |-> msg]

\* ------------------------------------------------------------ storage

\* load_data: the pickled dict, or an empty store when the file is absent
load_data(f) == IF f.exists THEN f.data ELSE EmptyData

\* A save that adds the last record of d to what the file holds instead of
\* overwriting the file.
save_data_append_last(f, d) ==
  IF f.exists /\ d.encodings # <<>>
  THEN [exists |-> TRUE,
        data |-> [encodings |-> Append(f.data.encodings,
                                       d.encodings[Len(d.encodings)]),
                  metadata |-> Append(f.data.metadata,
                                      d.metadata[Len(d.metadata)])]]
  ELSE [exists |-> TRUE, data |-> d]

\* save_data: open(STORAGE_FILE, 'wb') and dump: the file becomes d,
\* whatever it held (f is the file as it was).
save_data(f, d) == [exists |-> TRUE, data |-> d]

\* ------------------------------------------------------------ requests

\* Python truthiness of a request field
TruthyStr(s) == s # ""

TruthyAge(a) ==
  CASE a.t = "none" -> FALSE
    [] a.t = "int" -> a.n # 0
    [] OTHER -> a.s # <<>>

Digits == {"0", "1", "2", "3", "4", "5", "6", "7", "8", "9"}

DigitValue(c) ==
  CASE c = "0" -> 0 [] c = "1" -> 1 [] c = "2" -> 2 [] c = "3" -> 3
    [] c = "4" -> 4 [] c = "5" -> 5 [] c = "6" -> 6 [] c = "7" -> 7
    [] c = "8" -> 8 [] OTHER -> 9

RECURSIVE DecimalValue(_)
DecimalValue(s) ==
  IF s = <<>> THEN 0
  ELSE 10 * DecimalValue(SubSeq(s, 1, Len(s) - 1)) + DigitValue(s[Len(s)])

\* int(age): a JSON integer is itself; a string parses as decimal digits or
\* raises ValueError.
int_parses(a) ==
  \/ a.t = "int"
  \/ a.t = "str" /\ a.s # <<>> /\ \A i \in 1..Len(a.s) : a.s[i] \in Digits

int_age(a) == IF a.t = "int" THEN a.n ELSE DecimalValue(a.s)

\* A face-count check that rejects only the image without a face.
face_count_error_zero_only(n) ==
  IF n = 0 THEN "No face detected in image" ELSE ""

\* lines 90-94: the error for a number of detected faces, "" for none
face_count_error(n) ==
  IF n = 0 THEN "No face detected in image"
  ELSE IF n > 1
       THEN "Multiple faces detected. Please provide image with single face"
       ELSE ""

\* What request.json and request.form make of the image field (lines 68-73
\* and 133-138): "" when an image was found.  A multipart request reaches
\* request.json only when it has no file part, and request.json of a body
\* that is not JSON raises, which the handler's except turns into a 500.
image_field_error(r) ==
  IF r.image.kind # "absent" THEN NoResp
  ELSE IF r.transport = "form"
       THEN ErrorResp(500, "request body is not JSON")
       ELSE ErrorResp(400, "No image provided")

\* lines 76-81: form.get(x) or request.json.get(x), then all([...])
metadata_field_error(r) ==
  IF TruthyStr(r.name) /\ TruthyAge(r.age) /\ TruthyStr(r.gender)
  THEN NoResp
  ELSE IF r.transport = "form"
       THEN ErrorResp(500, "request body is not JSON")
       ELSE ErrorResp(400, "Name, age, and gender are required")

\* decode_image: raises ValueError, which the handler answers with a 500
decode_image_error(r) ==
  IF r.image.kind = "undecodable"
  THEN ErrorResp(500, "Failed to decode image")
  ELSE NoResp

\* register_face up to the load (lines 66-94): the early response, or
\* NoResp when the request goes on to load_data.
register_precheck(r) ==
  IF image_field_error(r).kind # "none" THEN image_field_error(r)
  ELSE IF metadata_field_error(r).kind # "none" THEN metadata_field_error(r)
  ELSE IF decode_image_error(r).kind # "none" THEN decode_image_error(r)
  ELSE IF face_count_error(Len(r.image.faces)) # ""
       THEN ErrorResp(400, face_count_error(Len(r.image.faces)))
       ELSE NoResp

\* An append that puts the new record in front of the others.
append_record_front(d, e, m) ==
  [encodings |-> <<e>> \o d.encodings, metadata |-> <<m>> \o d.metadata]

\* lines 108-109: both lists get the new element at the end
append_record(d, e, m) ==
  [encodings |-> Append(d.encodings, e), metadata |-> Append(d.metadata, m)]

RemoveAt(s, i) == SubSeq(s, 1, i) \o SubSeq(s, i + 2, Len(s))

\* A delete that removes the last record, whatever the index.
delete_at_last(d, i) ==
  [encodings |-> SubSeq(d.encodings, 1, Len(d.encodings) - 1),
   metadata |-> SubSeq(d.metadata, 1, Len(d.metadata) - 1)]

\* A delete that removes the encoding and leaves the metadata.
delete_at_encoding_only(d, i) ==
  [encodings |-> RemoveAt(d.encodings, i), metadata |-> d.metadata]

\* lines 222-223: del of index i (0-based) in both lists
delete_at(d, i) ==
  [encodings |-> RemoveAt(d.encodings, i), metadata |-> RemoveAt(d.metadata, i)]

\* A bounds check that lets person_id == len through.
invalid_person_id_off_by_one(i, d) == i < 0 \/ i > Len(d.encodings)

\* line 216
invalid_person_id(i, d) == i < 0 \/ i >= Len(d.encodings)

\* lines 198-205: enumerate(data['metadata'])
list_people(d) ==
  [i \in 1..Len(d.metadata) |->
     [person_id |-> i - 1, name |-> d.metadata[i].name,
      age |-> d.metadata[i].age, gender |-> d.metadata[i].gender,
      registered_at |-> d.metadata[i].registered_at]]

\* ------------------------------------------------------------ matching

Abs(x) == IF x < 0 THEN -x ELSE x

\* face_recognition.face_distance: the Euclidean distance of every stored
\* encoding to the query
face_distance(encs, q) == [i \in 1..Len(encs) |-> Abs(encs[i] - q)]

\* face_recognition.compare_faces: list(face_distance(...) <= tolerance)
compare_faces(encs, q, tol) ==
  [i \in 1..Len(encs) |-> face_distance(encs, q)[i] <= tol]

\* np.argmax in the place of np.argmin: the first index of the maximum.
argmax(ds) ==
  CHOOSE i \in 0..(Len(ds) - 1) :
    /\ \A j \in 1..Len(ds) : ds[j] <= ds[i + 1]
    /\ \A j \in 1..i : ds[j] < ds[i + 1]

\* np.argmin: the first index (0-based) of the minimum
argmin(ds) ==
  CHOOSE i \in 0..(Len(ds) - 1) :
    /\ \A j \in 1..Len(ds) : ds[j] >= ds[i + 1]
    /\ \A j \in 1..i : ds[j] > ds[i + 1]

\* np.argmin returns a numpy.int64, which is what the result carries
numpy_int64(i) == [type |-> "numpy.int64", value |-> i]

\* lines 160-182, one detected face against the loaded store; line is the
\* source line of the results.append that produced the entry
match_face(d, q) ==
  LET matches == compare_faces(d.encodings, q, Tolerance)
      face_distances == face_distance(d.encodings, q)
  IN IF \E i \in 1..Len(matches) : matches[i]
     THEN LET best_match_index == argmin(face_distances)
          IN IF matches[best_match_index + 1]
             THEN [recognized |-> TRUE,
                   name |-> d.metadata[best_match_index + 1].name,
                   age |-> d.metadata[best_match_index + 1].age,
                   gender |-> d.metadata[best_match_index + 1].gender,
                   confidence |-> Unit - face_distances[best_match_index + 1],
                   person_id |-> numpy_int64(best_match_index),
                   line |-> 171]
             ELSE [recognized |-> FALSE, message |-> "Face not recognized",
                   line |-> 180]
     ELSE [recognized |-> FALSE, message |-> "Face not recognized",
           line |-> 182]

\* A check of the store that never finds it empty.
store_is_empty_never(d) == FALSE

\* line 153
store_is_empty(d) == Len(d.encodings) = 0

\* The results list of recognize_face (lines 157-182) for the faces of an
\* image: empty when the handler returns before the loop.
recognize_results(r, f) ==
  IF \/ image_field_error(r).kind # "none"
     \/ decode_image_error(r).kind # "none"
     \/ Len(r.image.faces) = 0
     \/ store_is_empty(load_data(f))
  THEN <<>>
  ELSE [k \in 1..Len(r.image.faces) |->
          match_face(load_data(f), r.image.faces[k])]

\* flask.jsonify: the json encoder raises TypeError on a numpy.int64 (it is
\* no subclass of int), and recognize_face's except answers that with a 500.
\* Every other value the handlers hand to jsonify is a str, a bool, a list,
\* a dict, a Python int or a Python float.
jsonify_raises(res) == \E k \in 1..Len(res) : res[k].recognized

\* recognize_face (lines 131-190): the response
recognize_response(r, f) ==
  IF image_field_error(r).kind # "none" THEN image_field_error(r)
  ELSE IF decode_image_error(r).kind # "none" THEN decode_image_error(r)
  ELSE IF Len(r.image.faces) = 0
       THEN ErrorResp(400, "No face detected in image")
  ELSE IF store_is_empty(load_data(f))
       THEN ErrorResp(404, "No registered faces in database")
  ELSE IF jsonify_raises(recognize_results(r, f))
       THEN ErrorResp(500, "Object of type int64 is not JSON serializable")
  ELSE IF Len(recognize_results(r, f)) = 1
       THEN [status |-> 200, kind |-> "recognize",
             result |-> recognize_results(r, f)[1]]
       ELSE [status |-> 200, kind |-> "faces",
             faces |-> recognize_results(r, f)]

\* ------------------------------------------------------------ inputs

Names == {"ann", "bob", ""}

Genders == {"f", ""}

Ages ==
  {AgeNone, AgeInt(0), AgeInt(30), AgeStr(<<"3", "0">>), AgeStr(<<"x">>)}

Images ==
  {NoImage, BadImage, Photo(<<>>)}
    \cup {Photo(<<e>>) : e \in Encodings}
    \cup {Photo(<<0, 7>>), Photo(<<6, 12>>), Photo(<<12, 12>>)}

\* A form field is a string; a JSON field may be a number.
RegisterRequests ==
  {r \in [op : {"register"}, transport : {"json", "form"}, image : Images,
          name : Names, age : Ages, gender : Genders, person_id : {0}] :
     r.transport = "form" => r.age.t # "int"}

RecognizeRequests ==
  [op : {"recognize"}, transport : {"json", "form"}, image : Images,
   name : {""}, age : {AgeNone}, gender : {""}, person_id : {0}]

DeleteRequests ==
  [op : {"delete"}, transport : {"json"}, image : {NoImage}, name : {""},
   age : {AgeNone}, gender : {""}, person_id : (-1)..MaxStore]

PlainRequest(op) == [NoReq EXCEPT !.op = op]

\* The requests of the concurrent specification: well-formed registrations
\* of one face under two names, and every delete.
RacingRegisterRequests ==
  [op : {"register"}, transport : {"json"}, image : {Photo(<<0>>)},
   name : {"ann", "bob"}, age : {AgeStr(<<"3", "0">>)}, gender : {"f"},
   person_id : {0}]

\* ------------------------------------------------------------ handlers

Init ==
  /\ file = NoFile
  /\ pc = [p \in Workers |-> "idle"]
  /\ req = [p \in Workers |-> NoReq]
  /\ data = [p \in Workers |-> EmptyData]
  /\ results = [p \in Workers |-> <<>>]
  /\ resp = [p \in Workers |-> NoResp]

\* The handler returns res without loading or saving anything more.
Reply(p, r, res) ==
  /\ pc' = [pc EXCEPT ![p] = "done"]
  /\ req' = [req EXCEPT ![p] = r]
  /\ resp' = [resp EXCEPT ![p] = res]

\* register_face, lines 66-97: the checks of the request and load_data
RegisterBegin(p, r) ==
  /\ pc[p] = "idle"
  /\ IF register_precheck(r).kind # "none"
     THEN /\ Reply(p, r, register_precheck(r))
          /\ UNCHANGED <<file, data, results>>
     ELSE /\ Len(load_data(file).encodings) < MaxStore
          /\ pc' = [pc EXCEPT ![p] = "loaded"]
          /\ req' = [req EXCEPT ![p] = r]
          /\ data' = [data EXCEPT ![p] = load_data(file)]
          /\ UNCHANGED <<file, results, resp>>

\* register_face, lines 100-119: int(age), the two appends, save_data and
\* the response
RegisterCommit(p) ==
  /\ pc[p] = "loaded"
  /\ req[p].op = "register"
  /\ IF ~int_parses(req[p].age)
     THEN /\ Reply(p, req[p], ErrorResp(500, "invalid literal for int()"))
          /\ UNCHANGED <<file, data, results>>
     ELSE \E now \in Timestamps :
            LET metadata == [name |-> req[p].name, age |-> int_age(req[p].age),
                             gender |-> req[p].gender, registered_at |-> now]
                d == append_record(data[p], req[p].image.faces[1], metadata)
            IN /\ data' = [data EXCEPT ![p] = d]
               /\ file' = save_data(file, d)
               /\ Reply(p, req[p],
                        [status |-> 200, kind |-> "register", success |-> TRUE,
                         message |-> <<"Successfully registered ", req[p].name>>,
                         person_id |-> Len(d.encodings) - 1,
                         metadata |-> metadata])
               /\ UNCHANGED results

\* delete_person, lines 213-217: the route's int converter matches digits
\* only, so a negative id is a 404 of the router; then load_data and the
\* bounds check
DeleteBegin(p, r) ==
  /\ pc[p] = "idle"
  /\ IF r.person_id < 0
     THEN /\ Reply(p, r, ErrorResp(404, "Not Found"))
          /\ UNCHANGED <<file, data, results>>
     ELSE IF invalid_person_id(r.person_id, load_data(file))
     THEN /\ Reply(p, r, ErrorResp(404, "Invalid person_id"))
          /\ UNCHANGED <<file, data, results>>
     ELSE /\ pc' = [pc EXCEPT ![p] = "loaded"]
          /\ req' = [req EXCEPT ![p] = r]
          /\ data' = [data EXCEPT ![p] = load_data(file)]
          /\ UNCHANGED <<file, results, resp>>

\* delete_person, lines 219-232: the two dels, save_data and the response;
\* an index past the end of a list raises IndexError, answered with a 500
DeleteCommit(p) ==
  /\ pc[p] = "loaded"
  /\ req[p].op = "delete"
  /\ IF \/ req[p].person_id >= Len(data[p].metadata)
        \/ req[p].person_id >= Len(data[p].encodings)
     THEN /\ Reply(p, req[p], ErrorResp(500, "list index out of range"))
          /\ UNCHANGED <<file, data, results>>
     ELSE LET deleted_metadata == data[p].metadata[req[p].person_id + 1]
              d == delete_at(data[p], req[p].person_id)
          IN /\ data' = [data EXCEPT ![p] = d]
             /\ file' = save_data(file, d)
             /\ Reply(p, req[p],
                      [status |-> 200, kind |-> "delete", success |-> TRUE,
                       message |-> <<"Deleted ", deleted_metadata.name>>,
                       deleted |-> deleted_metadata])
             /\ UNCHANGED results

\* clear_database
Clear(p) ==
  /\ pc[p] = "idle"
  /\ data' = [data EXCEPT ![p] = EmptyData]
  /\ file' = save_data(file, EmptyData)
  /\ Reply(p, PlainRequest("clear"),
           [status |-> 200, kind |-> "clear", success |-> TRUE,
            message |-> "Database cleared"])
  /\ UNCHANGED results

\* list_people
List(p) ==
  /\ pc[p] = "idle"
  /\ data' = [data EXCEPT ![p] = load_data(file)]
  /\ Reply(p, PlainRequest("list"),
           [status |-> 200, kind |-> "list",
            count |-> Len(list_people(load_data(file))),
            people |-> list_people(load_data(file))])
  /\ UNCHANGED <<file, results>>

\* recognize_face
Recognize(p, r) ==
  /\ pc[p] = "idle"
  /\ results' = [results EXCEPT ![p] = recognize_results(r, file)]
  /\ Reply(p, r, recognize_response(r, file))
  /\ UNCHANGED <<file, data>>

\* health
Health(p) ==
  /\ pc[p] = "idle"
  /\ \E now \in Timestamps :
       Reply(p, PlainRequest("health"),
             [status |-> 200, kind |-> "health", health |-> "healthy",
              timestamp |-> now])
  /\ UNCHANGED <<file, data, results>>

\* The response is sent and the worker takes the next request.
Return(p) ==
  /\ pc[p] = "done"
  /\ pc' = [pc EXCEPT ![p] = "idle"]
  /\ req' = [req EXCEPT ![p] = NoReq]
  /\ data' = [data EXCEPT ![p] = EmptyData]
  /\ results' = [results EXCEPT ![p] = <<>>]
  /\ resp' = [resp EXCEPT ![p] = NoResp]
  /\ UNCHANGED file

\* Two workers serve register, delete and clear requests, interleaved at
\* the file accesses (app.run serves each request in a thread of its own).
Next ==
  \E p \in Workers :
    \/ \E r \in RacingRegisterRequests : RegisterBegin(p, r)
    \/ RegisterCommit(p)
    \/ \E r \in DeleteRequests : DeleteBegin(p, r)
    \/ DeleteCommit(p)
    \/ Clear(p)
    \/ Return(p)

Spec == Init /\ [][Next]_vars

\* One worker serves every kind of request, one request at a time.
SeqNext ==
  \/ \E r \in RegisterRequests : RegisterBegin(SeqWorker, r)
  \/ RegisterCommit(SeqWorker)
  \/ \E r \in DeleteRequests : DeleteBegin(SeqWorker, r)
  \/ DeleteCommit(SeqWorker)
  \/ Clear(SeqWorker)
  \/ List(SeqWorker)
  \/ \E r \in RecognizeRequests : Recognize(SeqWorker, r)
  \/ Health(SeqWorker)
  \/ Return(SeqWorker)

SeqSpec == Init /\ [][SeqNext]_vars

\* ------------------------------------------------------------ claims

Stored == load_data(file)

RegisterOk(p) ==
  pc[p] = "done" /\ req[p].op = "register" /\ resp[p].status = 200

\* The store a worker loaded before its registration was appended
Front(d) ==
  [encodings |-> SubSeq(d.encodings, 1, Len(d.encodings) - 1),
   metadata |-> SubSeq(d.metadata, 1, Len(d.metadata) - 1)]

\* C1: in every reachable state of the persisted store, whatever the
\* interleaving of the loads and saves of register, delete and clear
\* requests, there are as many stored encodings as metadata records.
C1_LengthsAgree == Len(file.data.encodings) = Len(file.data.metadata)

\* A register and a delete that loaded the same store of length 1; the
\* delete saved last.
C1_Witness ==
  \E p \in Workers, q \in Workers :
    /\ RegisterOk(p)
    /\ pc[q] = "done" /\ req[q].op = "delete" /\ resp[q].status = 200
    /\ Len(data[p].encodings) = 2
    /\ Len(data[q].encodings) = 0
    /\ file.data = data[q]

\* C2: last writer wins.  When two registers that loaded the same store of
\* length n have both answered 200, the file is exactly what one of them
\* saved: it has length n + 1, its first n records are the loaded ones, its
\* last record is the record of one of the two, and both responses report
\* person_id n.
C2_LastWriterWins ==
  \A p \in Workers, q \in Workers :
    (p # q /\ RegisterOk(p) /\ RegisterOk(q) /\ Front(data[p]) = Front(data[q]))
      => LET n == Len(Front(data[p]).encodings)
         IN /\ file.data \in {data[p], data[q]}
            /\ Len(file.data.encodings) = n + 1
            /\ Len(file.data.metadata) = n + 1
            /\ Front(file.data) = Front(data[p])
            /\ file.data.metadata[n + 1] \in {resp[p].metadata, resp[q].metadata}
            /\ resp[p].person_id = n
            /\ resp[q].person_id = n

\* Two registers under different names on a store of length 1, both
\* answered 200 with person_id 1, and the file holds two records: one of
\* the two registrations is gone.
C2_Witness ==
  \E p \in Workers, q \in Workers :
    /\ p # q /\ RegisterOk(p) /\ RegisterOk(q)
    /\ Front(data[p]) = Front(data[q])
    /\ resp[p].person_id = 1 /\ resp[q].person_id = 1
    /\ resp[p].metadata.name # resp[q].metadata.name
    /\ Len(file.data.metadata) = 2
    /\ file.data.metadata[2] = resp[q].metadata

\* C3: a delete of an index i inside the store, with no save by another
\* request between its load and its save, answers 200 with the metadata that
\* was at i, and a list of the store it leaves has one entry less: the
\* entries before i as they were, the entries after i one person_id lower.
C3_DeleteShiftsDown ==
  [][\A p \in Workers :
       (/\ pc[p] = "loaded" /\ req[p].op = "delete" /\ pc'[p] = "done"
        /\ load_data(file) = data[p])
         => LET i == req[p].person_id
                before == list_people(load_data(file))
                after == list_people(load_data(file'))
            IN /\ resp'[p].status = 200
               /\ resp'[p].deleted = load_data(file).metadata[i + 1]
               /\ Len(after) = Len(before) - 1
               /\ Len(load_data(file').encodings) = Len(before) - 1
               /\ \A j \in 0..(Len(before) - 1) :
                    /\ j < i => after[j + 1] = before[j + 1]
                    /\ j > i => after[j] = [before[j + 1] EXCEPT !.person_id = j - 1]
                    /\ j > i => load_data(file').encodings[j]
                                  = load_data(file).encodings[j + 1]
    ]_vars

\* A delete of person_id 0 of a store of two records answered 200.
C3_Witness ==
  /\ pc[SeqWorker] = "done" /\ req[SeqWorker].op = "delete"
  /\ resp[SeqWorker].status = 200
  /\ req[SeqWorker].person_id = 0
  /\ Len(file.data.metadata) = 1

\* C4: a delete whose person_id is negative, or not below the length of the
\* store as it is when the request reads it, is answered 404 and leaves the
\* file as it was.
C4_DeleteOutOfRange ==
  [][\A p \in Workers :
       (/\ pc[p] = "idle" /\ pc'[p] # "idle" /\ req'[p].op = "delete"
        /\ \/ req'[p].person_id < 0
           \/ req'[p].person_id >= Len(load_data(file).encodings))
         => /\ pc'[p] = "done"
            /\ resp'[p].status = 404
            /\ file' = file
    ]_vars

\* person_id 0 was refused on a store that was never written.
C4_Witness ==
  \E p \in Workers :
    /\ pc[p] = "done" /\ req[p].op = "delete" /\ req[p].person_id = 0
    /\ resp[p].status = 404
    /\ ~file.exists

\* C5: a register with an image, a name, an age and a gender whose image
\* has no detected face, or more than one, is answered 400 and leaves the
\* file as it was; a register that goes on to the append and the save has
\* an image with exactly one detected face.
C5_FaceCount ==
  [][\A p \in Workers :
       /\ (/\ pc[p] = "idle" /\ pc'[p] # "idle" /\ req'[p].op = "register"
           /\ req'[p].image.kind = "ok"
           /\ req'[p].name # "" /\ req'[p].gender # ""
           /\ TruthyAge(req'[p].age)
           /\ Len(req'[p].image.faces) # 1)
            => /\ pc'[p] = "done"
               /\ resp'[p].status = 400
               /\ file' = file
       /\ (pc'[p] = "loaded" /\ req'[p].op = "register")
            => /\ req'[p].image.kind = "ok"
               /\ Len(req'[p].image.faces) = 1
    ]_vars

\* A complete register request with two faces was refused with 400 on a
\* store that holds a record.
C5_Witness ==
  /\ pc[SeqWorker] = "done" /\ req[SeqWorker].op = "register"
  /\ Len(req[SeqWorker].image.faces) = 2
  /\ req[SeqWorker].name = "ann" /\ req[SeqWorker].gender = "f"
  /\ req[SeqWorker].age = AgeInt(30)
  /\ resp[SeqWorker].status = 400
  /\ Len(Stored.encodings) = 1

RecognizeDone(p) == pc[p] = "done" /\ req[p].op = "recognize"

\* C6 as stated: every recognize of a decodable image handled while the
\* store is empty is answered 404, an image without a face included, and
\* never with a match.
C6_Original ==
  \A p \in Workers :
    (RecognizeDone(p) /\ req[p].image.kind = "ok" /\ Len(Stored.encodings) = 0)
      => /\ resp[p].status = 404
         /\ resp[p].kind # "recognize" /\ resp[p].kind # "faces"

\* C6, amended: a recognize handled while the store is empty is answered
\* 404 with the empty-store error when its image has at least one detected
\* face, and 400 with the no-face error when its image has none; in neither
\* case is a match result computed or returned.
C6_EmptyStore ==
  \A p \in Workers :
    (RecognizeDone(p) /\ req[p].image.kind = "ok" /\ Len(Stored.encodings) = 0)
      => /\ Len(req[p].image.faces) >= 1
            => /\ resp[p].status = 404
               /\ resp[p].error = "No registered faces in database"
         /\ Len(req[p].image.faces) = 0
            => /\ resp[p].status = 400
               /\ resp[p].error = "No face detected in image"
         /\ resp[p].kind = "error"
         /\ results[p] = <<>>

\* A one-face image was answered 404 on a cleared store.
C6_Witness ==
  /\ RecognizeDone(SeqWorker)
  /\ Len(req[SeqWorker].image.faces) = 1
  /\ file.exists /\ Len(Stored.encodings) = 0
  /\ resp[SeqWorker].status = 404

MinDistance(encs, q) ==
  CHOOSE d \in {Abs(encs[i] - q) : i \in 1..Len(encs)} :
    \A i \in 1..Len(encs) : d <= Abs(encs[i] - q)

LowestNearest(encs, q) ==
  CHOOSE i \in 1..Len(encs) :
    /\ Abs(encs[i] - q) = MinDistance(encs, q)
    /\ \A j \in 1..(i - 1) : Abs(encs[j] - q) # MinDistance(encs, q)

\* C7 as stated: for a one-face image and a non-empty store the response
\* reports the face recognized exactly when the minimum distance d is at
\* most the tolerance, and then with the lowest index at that distance as
\* person_id, that record's name, age and gender, and confidence 1 - d.
C7_RecognizeReports ==
  \A p \in Workers :
    (/\ RecognizeDone(p) /\ req[p].image.kind = "ok"
     /\ Len(req[p].image.faces) = 1 /\ Len(Stored.encodings) > 0)
      => LET q == req[p].image.faces[1]
             d == MinDistance(Stored.encodings, q)
             i == LowestNearest(Stored.encodings, q)
         IN /\ resp[p].status = 200
            /\ resp[p].kind = "recognize"
            /\ resp[p].result.recognized <=> d <= Tolerance
            /\ resp[p].result.recognized
                 => /\ resp[p].result.person_id.value = i - 1
                    /\ resp[p].result.name = Stored.metadata[i].name
                    /\ resp[p].result.age = Stored.metadata[i].age
                    /\ resp[p].result.gender = Stored.metadata[i].gender
                    /\ resp[p].result.confidence = Unit - d

\* C8: a register with no save by another request between its load and its
\* save either answers 200, and then the file is the store it loaded with
\* one encoding and one metadata record added at the end and the response's
\* person_id is the new length minus one, or answers an error and leaves
\* the file as it was.
C8_RegisterAllOrNothing ==
  [][\A p \in Workers :
       /\ (pc[p] # "done" /\ pc'[p] = "done" /\ req'[p].op = "register"
           /\ (pc[p] = "loaded" => load_data(file) = data[p]))
            => IF resp'[p].status = 200
               THEN LET old == load_data(file)
                        new == load_data(file')
                        n == Len(old.encodings)
                    IN /\ file'.exists
                       /\ Len(new.encodings) = n + 1
                       /\ Len(new.metadata) = Len(old.metadata) + 1
                       /\ SubSeq(new.encodings, 1, n) = old.encodings
                       /\ SubSeq(new.metadata, 1, n) = old.metadata
                       /\ new.encodings[n + 1] = req'[p].image.faces[1]
                       /\ new.metadata[n + 1] = resp'[p].metadata
                       /\ resp'[p].metadata.name = req'[p].name
                       /\ resp'[p].person_id = Len(new.encodings) - 1
               ELSE /\ resp'[p].status \in {400, 500}
                    /\ file' = file
       /\ (pc'[p] = "loaded" /\ req'[p].op = "register" /\ pc[p] = "idle")
            => file' = file
    ]_vars

\* A register was answered 200 with person_id 1: its record follows
\* another one.
C8_Witness ==
  /\ RegisterOk(SeqWorker)
  /\ resp[SeqWorker].person_id = 1
  /\ Stored.metadata[1].name # resp[SeqWorker].metadata.name
  /\ Stored.encodings[1] # req[SeqWorker].image.faces[1]

\* C9 as stated: after a register of a one-face image has succeeded (the
\* last stored encoding is the encoding of that image's face) and nothing
\* else has changed the store, a recognize of the same image is answered
\* with a recognized result of distance 0, confidence 1, whose name, age
\* and gender are those of a stored record with the query's encoding.
C9_RegisterThenRecognize ==
  \A p \in Workers :
    (/\ RecognizeDone(p) /\ req[p].image.kind = "ok"
     /\ Len(req[p].image.faces) = 1 /\ Len(Stored.encodings) > 0
     /\ Stored.encodings[Len(Stored.encodings)] = req[p].image.faces[1])
      => /\ resp[p].status = 200
         /\ resp[p].kind = "recognize"
         /\ resp[p].result.recognized
         /\ resp[p].result.confidence = Unit
         /\ \E i \in 1..Len(Stored.encodings) :
              /\ Stored.encodings[i] = req[p].image.faces[1]
              /\ Stored.metadata[i].name = resp[p].result.name
              /\ Stored.metadata[i].age = resp[p].result.age
              /\ Stored.metadata[i].gender = resp[p].result.gender

\* C10: for every face of a recognize, when some stored encoding is within
\* the tolerance the entry of results is a match, made at line 171 with the
\* record nearest to the query, which is itself within the tolerance; the
\* append of line 180 is never the one that made an entry.
C10_InnerBranchDead ==
  \A p \in Workers :
    RecognizeDone(p) =>
      \A k \in 1..Len(results[p]) :
        LET q == req[p].image.faces[k]
            within == {i \in 1..Len(Stored.encodings) :
                         Abs(Stored.encodings[i] - q) <= Tolerance}
        IN /\ results[p][k].line # 180
           /\ within # {} <=> results[p][k].recognized
           /\ within # {} =>
                /\ results[p][k].line = 171
                /\ (results[p][k].person_id.value + 1) \in within
                /\ \A i \in 1..Len(Stored.encodings) :
                     Unit - results[p][k].confidence <= Abs(Stored.encodings[i] - q)

\* A face matched a store of two records, one of them within the tolerance
\* and nearest, the other outside the tolerance.
C10_Witness ==
  /\ RecognizeDone(SeqWorker)
  /\ Len(results[SeqWorker]) = 1
  /\ results[SeqWorker][1].recognized
  /\ Len(Stored.encodings) = 2
  /\ \E i \in 1..2 : Abs(Stored.encodings[i] - req[SeqWorker].image.faces[1]) > Tolerance

====
